---- MODULE Spec2Model ----
(***************************************************************************)
(* Floyd-Steinberg error diffusion (src/src/error-diffusion.ts).           *)
(*                                                                         *)
(* Three specifications over one set of variables:                         *)
(*   Spec        - one call of applyErrorDiffusion, one step per pixel     *)
(*   SpecNearest - one call of findNearestLevel                            *)
(*   SpecMain    - one run of main, one step per await                     *)
(*                                                                         *)
(* Numbers.  The working buffer is a Float64Array.  Every value the scan   *)
(* produces from integer pixels is a dyadic rational m / 2^e, and while    *)
(* |m| < 2^53 binary64 computes +, - and * (k/16) on such values without   *)
(* rounding.  A number is modelled as the record [nan, m, e] with m odd or *)
(* e = 0; the bounds keep |m| below 2^31, so every operation below is the  *)
(* exact one binary64 performs.  NaN is the value of every arithmetic      *)
(* operation on undefined (an absent array element) and of a store of      *)
(* undefined into a Float64Array.                                          *)
(***************************************************************************)
EXTENDS Integers, Sequences, FiniteSets, TLC

VARIABLES
    \* ---- applyErrorDiffusion ----
    imageData,   \* argument: 0-based array of pixel values
    width,       \* argument
    height,      \* argument
    levels,      \* argument: sequence of allowed levels
    result,      \* the Float64Array working copy (0-based)
    x, y,        \* loop counters
    index,       \* locals of the last executed loop body
    oldPixel,
    newPixel,
    error,
    before,      \* the working copy as the last executed loop body found it
    stores,      \* per cell, how many times line 76 stored into it
    output,      \* the returned Uint8Array (0-based)
    pc,          \* "scan" | "returned" | "idle"
    \* ---- findNearestLevel called on its own ----
    qValue, qLevels, qResult, qpc,
    \* ---- main ----
    mpc, filename, fileExists, metaWidth, metaHeight, data,
    encodedData, uniqueValues, files, exitCode

engineVars == <<imageData, width, height, levels, result, x, y, index,
                oldPixel, newPixel, error, before, stores, output, pc>>
nearestVars == <<qValue, qLevels, qResult, qpc>>
mainVars == <<mpc, filename, fileExists, metaWidth, metaHeight, data,
              encodedData, uniqueValues, files, exitCode>>
vars == <<engineVars, nearestVars, mainVars>>

----------------------------------------------------------------------------
(* Bounds *)

\* Longest chain of pixels through which error is handed on (each link adds
\* four fractional bits to the numbers of the working buffer).
MaxDepth == 4

\* findNearestLevel alone is probed from -QMargin to 255 + QMargin.
QMargin == 40

\* ... in steps of 1 / 2^QBits.
QBits == 1

\* Buffers whose length disagrees with width * height are enumerated up to
\* this length.
MaxBadLen == 2

\* The pixel values the input buffers are drawn from.
PixelVals == {0, 100, 255}

(* Program constants *)

\* the upper clamp of the conversion back to uint8
MaxIntensity == 255

\* const levels = [0, 51, 102, 153, 204, 255];
MainLevels == <<0, 51, 102, 153, 204, 255>>

\* The palettes applyErrorDiffusion is called with: the program's, a
\* two-level one, a single-level one and the empty one.
Palettes == {MainLevels, <<0, 255>>, <<128>>, <<>>}

----------------------------------------------------------------------------
(* binary64 values that are dyadic rationals, and NaN *)

NaN == [nan |-> TRUE, m |-> 0, e |-> 0]

RECURSIVE Norm(_, _)
Norm(m, e) ==
    IF m = 0 THEN [nan |-> FALSE, m |-> 0, e |-> 0]
    ELSE IF e > 0 /\ m % 2 = 0 THEN Norm(m \div 2, e - 1)
    ELSE [nan |-> FALSE, m |-> m, e |-> e]

Num(n) == [nan |-> FALSE, m |-> n, e |-> 0]

MaxOf(a, b) == IF a >= b THEN a ELSE b

\* the numerator of a over the denominator 2^e (e >= a.e)
Scaled(a, e) == a.m * 2^(e - a.e)

Add(a, b) ==
    IF a.nan \/ b.nan THEN NaN
    ELSE LET e == MaxOf(a.e, b.e) IN Norm(Scaled(a, e) + Scaled(b, e), e)

Sub(a, b) ==
    IF a.nan \/ b.nan THEN NaN
    ELSE LET e == MaxOf(a.e, b.e) IN Norm(Scaled(a, e) - Scaled(b, e), e)

\* a * (k / 16)
MulSixteenths(a, k) == IF a.nan THEN NaN ELSE Norm(a.m * k, a.e + 4)

\* Math.abs left out: the signed difference is taken for the distance
AbsMissing(a) == a

\* Math.abs
Abs(a) == IF a.nan THEN NaN ELSE [a EXCEPT !.m = IF a.m < 0 THEN -a.m ELSE a.m]

\* a < b  (false when either is NaN)
Less(a, b) ==
    /\ ~a.nan
    /\ ~b.nan
    /\ LET e == MaxOf(a.e, b.e) IN Scaled(a, e) < Scaled(b, e)

\* Math.round: the nearest integer, halves towards +infinity
Round(a) ==
    IF a.nan THEN NaN
    ELSE IF a.e = 0 THEN a
    ELSE Num((2 * a.m + 2^a.e) \div 2^(a.e + 1))

\* Math.max(0, Math.min(255, v)) stored into a Uint8Array (NaN is stored as 0)
ClampToUint8(a) ==
    IF a.nan THEN 0
    ELSE IF Less(Num(MaxIntensity), a) THEN MaxIntensity
    ELSE IF Less(a, Num(0)) THEN 0
    ELSE a.m

----------------------------------------------------------------------------
(* arrays *)

\* levels[i] of a JavaScript array held as a sequence (i is 0-based);
\* undefined, which every use here turns into NaN, when i is out of range
LevelAt(lv, i) == IF i + 1 \in DOMAIN lv THEN Num(lv[i + 1]) ELSE NaN

\* result[i] of a typed array: undefined (NaN in arithmetic) out of range
Read(r, i) == IF i \in DOMAIN r THEN r[i] ELSE NaN

\* result[i] = v of a typed array: ignored out of range
Store(r, i, v) == IF i \in DOMAIN r THEN [r EXCEPT ![i] = v] ELSE r

\* result[i] += inc
AddAt(r, i, inc) == Store(r, i, Add(Read(r, i), inc))

----------------------------------------------------------------------------
(* findNearestLevel *)

\* the scan with <= for <: of two equidistant levels the later one wins
RECURSIVE ScanLevelsLastWins(_, _, _, _, _)
ScanLevelsLastWins(value, lv, i, nearest, minDistance) ==
    IF i >= Len(lv) THEN nearest
    ELSE LET level == LevelAt(lv, i)
             distance == Abs(Sub(value, level))
         IN  IF ~Less(minDistance, distance)
             THEN ScanLevelsLastWins(value, lv, i + 1, level, distance)
             ELSE ScanLevelsLastWins(value, lv, i + 1, nearest, minDistance)

RECURSIVE ScanLevels(_, _, _, _, _)
ScanLevels(value, lv, i, nearest, minDistance) ==
    IF i >= Len(lv) THEN nearest
    ELSE LET level == LevelAt(lv, i)
             distance == Abs(Sub(value, level))
         IN  IF Less(distance, minDistance)
             THEN ScanLevels(value, lv, i + 1, level, distance)
             ELSE ScanLevels(value, lv, i + 1, nearest, minDistance)

findNearestLevel(value, lv) ==
    ScanLevels(value, lv, 0, LevelAt(lv, 0), Abs(Sub(value, LevelAt(lv, 0))))

----------------------------------------------------------------------------
(* applyErrorDiffusion: the body of the double loop *)

\* the right neighbour without the test x + 1 < width
DiffuseRightUnguarded(r, w, h, px, py, err) ==
    AddAt(r, py * w + (px + 1), MulSixteenths(err, 7))

\* Right pixel [x+1, y] gets 7/16 of error
DiffuseRight(r, w, h, px, py, err) ==
    IF px + 1 < w
    THEN AddAt(r, py * w + (px + 1), MulSixteenths(err, 7))
    ELSE r

\* the bottom-left neighbour taken on row y instead of row y + 1
DiffuseBottomLeftSameRow(r, w, h, px, py, err) ==
    IF px - 1 >= 0 /\ py + 1 < h
    THEN AddAt(r, py * w + (px - 1), MulSixteenths(err, 3))
    ELSE r

\* Bottom-left pixel [x-1, y+1] gets 3/16 of error
DiffuseBottomLeft(r, w, h, px, py, err) ==
    IF px - 1 >= 0 /\ py + 1 < h
    THEN AddAt(r, (py + 1) * w + (px - 1), MulSixteenths(err, 3))
    ELSE r

\* the bottom neighbour given the bottom-left neighbour's 3/16
DiffuseBottomThreeSixteenths(r, w, h, px, py, err) ==
    IF py + 1 < h
    THEN AddAt(r, (py + 1) * w + px, MulSixteenths(err, 3))
    ELSE r

\* Bottom pixel [x, y+1] gets 5/16 of error
DiffuseBottom(r, w, h, px, py, err) ==
    IF py + 1 < h
    THEN AddAt(r, (py + 1) * w + px, MulSixteenths(err, 5))
    ELSE r

\* Bottom-right pixel [x+1, y+1] gets 1/16 of error
DiffuseBottomRight(r, w, h, px, py, err) ==
    IF px + 1 < w /\ py + 1 < h
    THEN AddAt(r, (py + 1) * w + (px + 1), MulSixteenths(err, 1))
    ELSE r

\* the flat index computed with the height for the width
IndexOfByHeight(w, h, px, py) == py * h + px

\* const index = y * width + x
IndexOf(w, h, px, py) == py * w + px

\* result[index] = newPixel left out
StoreQuantizedSkipped(r, i, new) == r

\* result[index] = newPixel
StoreQuantized(r, i, new) == Store(r, i, new)

\* Lines 84-106: the four conditional additions, in the order of the code.
Diffuse(r, w, h, px, py, err) ==
    DiffuseBottomRight(
        DiffuseBottom(
            DiffuseBottomLeft(
                DiffuseRight(r, w, h, px, py, err),
                w, h, px, py, err),
            w, h, px, py, err),
        w, h, px, py, err)

\* One execution of the loop body at (px, py): the working copy it leaves.
LoopBody(r, w, h, lv, px, py) ==
    LET i   == IndexOf(w, h, px, py)
        old == Read(r, i)
        new == findNearestLevel(old, lv)
    IN  Diffuse(StoreQuantized(r, i, new), w, h, px, py, Sub(old, new))

\* new Float64Array(imageData)
ToFloat64Array(img) == [i \in DOMAIN img |-> Num(img[i])]

\* Uint8Array.from(result, value => Math.max(0, Math.min(255, Math.round(value))))
ToUint8Array(r) == [i \in DOMAIN r |-> ClampToUint8(Round(r[i]))]

\* The whole double loop from (px, py) on, as one value.
RECURSIVE ScanFrom(_, _, _, _, _, _)
ScanFrom(r, w, h, lv, px, py) ==
    IF py >= h THEN r
    ELSE IF px >= w THEN ScanFrom(r, w, h, lv, 0, py + 1)
    ELSE ScanFrom(LoopBody(r, w, h, lv, px, py), w, h, lv, px + 1, py)

applyErrorDiffusion(img, w, h, lv) ==
    ToUint8Array(ScanFrom(ToFloat64Array(img), w, h, lv, 0, 0))

----------------------------------------------------------------------------
(* Spec: one call of applyErrorDiffusion *)

\* Length of the longest chain of pixels of a w x h grid along which error is
\* handed on.
Depth(w, h) ==
    IF w <= 0 \/ h <= 0 THEN 0
    ELSE IF w = 1 THEN h - 1
    ELSE (w - 1) + 2 * (h - 1)

Shapes ==
    {d \in (-1 .. MaxDepth + 1) \X (-1 .. MaxDepth + 1) :
        Depth(d[1], d[2]) <= MaxDepth}

\* The buffer lengths a call with dimensions w, h is made with: w * h, and
\* lengths that disagree with it.
BufLens(w, h) ==
    (IF w >= 0 /\ h >= 0 THEN {w * h} ELSE {})
        \cup {n \in 0 .. MaxBadLen : w < 0 \/ h < 0 \/ n # w * h}

NoLocal == Num(0)

NearestIdle ==
    /\ qValue = NoLocal
    /\ qLevels = <<>>
    /\ qResult = NoLocal
    /\ qpc = "idle"

MainIdle ==
    /\ mpc = "idle"
    /\ filename = ""
    /\ fileExists = FALSE
    /\ metaWidth = 0
    /\ metaHeight = 0
    /\ data = <<>>
    /\ encodedData = <<>>
    /\ uniqueValues = {}
    /\ files = {}
    /\ exitCode = -1

EngineIdle ==
    /\ imageData = <<>>
    /\ width = 0
    /\ height = 0
    /\ levels = <<>>
    /\ result = <<>>
    /\ x = 0
    /\ y = 0
    /\ index = -1
    /\ oldPixel = NoLocal
    /\ newPixel = NoLocal
    /\ error = NoLocal
    /\ before = <<>>
    /\ stores = <<>>
    /\ output = <<>>
    /\ pc = "idle"

\* Entry of applyErrorDiffusion up to the first loop test.
Init ==
    /\ \E d \in Shapes :
         /\ width = d[1]
         /\ height = d[2]
         /\ \E n \in BufLens(d[1], d[2]) :
              imageData \in [0 .. n - 1 -> PixelVals]
    /\ levels \in Palettes
    /\ result = ToFloat64Array(imageData)
    /\ x = 0
    /\ y = 0
    /\ index = -1
    /\ oldPixel = NoLocal
    /\ newPixel = NoLocal
    /\ error = NoLocal
    /\ before = result
    /\ stores = [i \in DOMAIN imageData |-> 0]
    /\ output = <<>>
    /\ pc = "scan"
    /\ NearestIdle
    /\ MainIdle

\* for (let x = 0; x < width; x++) { ... }: one loop body
Pixel ==
    /\ pc = "scan"
    /\ y < height
    /\ x < width
    /\ index' = IndexOf(width, height, x, y)
    /\ oldPixel' = Read(result, index')
    /\ newPixel' = findNearestLevel(oldPixel', levels)
    /\ error' = Sub(oldPixel', newPixel')
    /\ result' = Diffuse(StoreQuantized(result, index', newPixel'),
                         width, height, x, y, error')
    /\ stores' = IF index' \in DOMAIN stores
                 THEN [stores EXCEPT ![index'] = @ + 1]
                 ELSE stores
    /\ before' = result
    /\ x' = x + 1
    /\ UNCHANGED <<imageData, width, height, levels, y, output, pc>>
    /\ UNCHANGED <<nearestVars, mainVars>>

\* the inner loop ends: y++, x = 0
NextRow ==
    /\ pc = "scan"
    /\ y < height
    /\ x >= width
    /\ y' = y + 1
    /\ x' = 0
    /\ UNCHANGED <<imageData, width, height, levels, result, index, oldPixel,
                   newPixel, error, before, stores, output, pc>>
    /\ UNCHANGED <<nearestVars, mainVars>>

\* the outer loop ends: convert back to uint8 and return
Return ==
    /\ pc = "scan"
    /\ y >= height
    /\ output' = ToUint8Array(result)
    /\ pc' = "returned"
    /\ UNCHANGED <<imageData, width, height, levels, result, x, y, index,
                   oldPixel, newPixel, error, before, stores>>
    /\ UNCHANGED <<nearestVars, mainVars>>

Next == Pixel \/ NextRow \/ Return

Spec == Init /\ [][Next]_vars

----------------------------------------------------------------------------
(* Properties of applyErrorDiffusion, checked under Spec *)

LevelSet == {levels[i] : i \in DOMAIN levels}

DimsValid ==
    /\ width >= 0
    /\ height >= 0
    /\ DOMAIN imageData = 0 .. width * height - 1

ValidInput == DimsValid /\ Len(levels) > 0

\* column and row of cell j, and of the pixel the last loop body processed
Col(j) == j % width
Row(j) == j \div width
LastX == Col(index)
LastY == Row(index)

\* a loop body has run
Stepped == index >= 0

\* C1: for every valid input, every element of the returned buffer is a
\* member of the supplied palette.
C1_PaletteMembership ==
    (pc = "returned" /\ ValidInput) =>
        \A i \in DOMAIN output : output[i] \in LevelSet

\* a 3 x 2 image of the program's palette has been returned with more than
\* one level in it
C1_Witness ==
    /\ pc = "returned"
    /\ ValidInput
    /\ width = 3
    /\ height = 2
    /\ levels = MainLevels
    /\ Cardinality({output[i] : i \in DOMAIN output}) >= 3

\* C3 as claimed: with an empty palette the call fails before any cell of the
\* working buffer is changed and returns no buffer (stated for a grid that
\* has cells and matches its buffer).
C3_EmptyPaletteFails ==
    (DimsValid /\ width * height > 0 /\ Len(levels) = 0) =>
        /\ pc # "returned"
        /\ result = ToFloat64Array(imageData)

\* C4 as claimed: with a negative dimension or a buffer whose length is not
\* width * height the call fails at once: no pixel is processed, no buffer is
\* returned (stated for a non-empty palette).
C4_InvalidDimensionsFail ==
    (~DimsValid /\ Len(levels) > 0) => (pc # "returned" /\ ~Stepped)

\* C6: with a palette of exactly one level L, every element of the output is L.
C6_SingleLevel ==
    (pc = "returned" /\ ValidInput /\ Len(levels) = 1) =>
        \A i \in DOMAIN output : output[i] = levels[1]

\* a non-uniform 2 x 2 image has been returned under a one-level palette
C6_Witness ==
    /\ pc = "returned"
    /\ ValidInput
    /\ Len(levels) = 1
    /\ width = 2
    /\ height = 2
    /\ Cardinality({imageData[i] : i \in DOMAIN imageData}) >= 2
    /\ \A i \in DOMAIN output : output[i] = levels[1]

\* the sum over the cells other than the processed one of what the last loop
\* body added to them
RECURSIVE SumAdded(_)
SumAdded(j) ==
    IF j < 0 THEN Num(0)
    ELSE IF j = index THEN SumAdded(j - 1)
    ELSE Add(SumAdded(j - 1), Sub(result[j], before[j]))

Emitted == SumAdded(width * height - 1)

\* C7 as claimed: for a pixel not on the last row and not on the last column,
\* the amounts its processing adds to its neighbours sum to its error.
C7_NotLastRowOrColumn ==
    (ValidInput /\ Stepped /\ LastX + 1 < width /\ LastY + 1 < height) =>
        Emitted = error

\* C7 amended: the same for a pixel that is also not on the first column.
C7_Interior ==
    (/\ ValidInput
     /\ Stepped
     /\ LastX >= 1
     /\ LastX + 1 < width
     /\ LastY + 1 < height) =>
        Emitted = error

\* the loop body has just processed an interior pixel with a non-zero error
\* that is no multiple of 16
C7_Witness ==
    /\ ValidInput
    /\ Stepped
    /\ pc = "scan"
    /\ LastX >= 1
    /\ LastX + 1 < width
    /\ LastY + 1 < height
    /\ error.m # 0
    /\ error.e > 0
    /\ Emitted = error

\* cells before the scan position, in raster order
Processed(j) == j < y * width + x

IsLevel(v) == ~v.nan /\ v.e = 0 /\ v.m \in LevelSet

\* C9: every cell is stored into exactly once, when the scan reaches it; from
\* then on it holds a palette value that no later loop body changes: a loop
\* body changes, besides its own cell, only cells later in raster order.
C9_SingleWrite ==
    ValidInput =>
        /\ \A j \in DOMAIN result :
             IF Processed(j)
             THEN stores[j] = 1 /\ IsLevel(result[j])
             ELSE stores[j] = 0
        /\ Stepped =>
             /\ result[index] = newPixel
             /\ \A j \in DOMAIN result : j < index => result[j] = before[j]

\* a loop body that found finalized cells before it has changed a later cell
C9_Witness ==
    /\ ValidInput
    /\ pc = "scan"
    /\ index >= 2
    /\ \E j \in DOMAIN result : j > index /\ result[j] # before[j]
    /\ \A j \in DOMAIN result : j < index => IsLevel(result[j])

\* what processing pixel (px, py) with error err must leave in cell j: the
\* weight is chosen by the cell's coordinates relative to the pixel
Expected(j) ==
    LET dx == Col(j) - LastX
        dy == Row(j) - LastY
    IN  IF dx = 0 /\ dy = 0 THEN newPixel
        ELSE IF dx = 1 /\ dy = 0 THEN Add(before[j], MulSixteenths(error, 7))
        ELSE IF dx = -1 /\ dy = 1 THEN Add(before[j], MulSixteenths(error, 3))
        ELSE IF dx = 0 /\ dy = 1 THEN Add(before[j], MulSixteenths(error, 5))
        ELSE IF dx = 1 /\ dy = 1 THEN Add(before[j], MulSixteenths(error, 1))
        ELSE before[j]

\* C10: processing pixel (x, y) changes only that cell and those of the
\* neighbours (x+1, y), (x-1, y+1), (x, y+1), (x+1, y+1) that are cells of
\* the grid, by error * 7/16, 3/16, 5/16 and 1/16; no other cell changes, and
\* nothing wraps around a row end.
C10_Frame ==
    (DimsValid /\ Stepped) =>
        \A j \in DOMAIN result : result[j] = Expected(j)

\* a last-column pixel above the last row has been processed with a non-zero
\* error, and the first cell of the next row is as it was
C10_Witness ==
    /\ DimsValid
    /\ Stepped
    /\ width >= 2
    /\ LastX = width - 1
    /\ LastY + 1 < height
    /\ ~error.nan
    /\ error.m # 0
    /\ result[index + 1] = before[index + 1]

----------------------------------------------------------------------------
(* SpecNearest: one call of findNearestLevel *)

\* the values findNearestLevel is called with: the multiples of 1 / 2^QBits
\* from -QMargin to 255 + QMargin
QValues ==
    {Norm(n, QBits) :
        n \in (-QMargin) * 2^QBits .. (MaxIntensity + QMargin) * 2^QBits}

QPalettes == {lv \in Palettes : Len(lv) > 0}

InitNearest ==
    /\ qValue \in QValues
    /\ qLevels \in QPalettes
    /\ qResult = NoLocal
    /\ qpc = "call"
    /\ EngineIdle
    /\ MainIdle

Quantize ==
    /\ qpc = "call"
    /\ qResult' = findNearestLevel(qValue, qLevels)
    /\ qpc' = "done"
    /\ UNCHANGED <<qValue, qLevels>>
    /\ UNCHANGED <<engineVars, mainVars>>

NextNearest == Quantize

SpecNearest == InitNearest /\ [][NextNearest]_vars

QLevelSet == {qLevels[i] : i \in DOMAIN qLevels}

\* |qValue - l| in units of 1 / 2^qValue.e
QDistance(l) ==
    LET d == qValue.m - l * 2^qValue.e IN IF d < 0 THEN -d ELSE d

\* C2: findNearestLevel returns a member of the palette at minimal absolute
\* distance from the value, and the lower one of two equidistant members.
C2_NearestLowerOnTie ==
    (qpc = "done") =>
        /\ ~qResult.nan
        /\ qResult.e = 0
        /\ qResult.m \in QLevelSet
        /\ \A l \in QLevelSet :
             /\ QDistance(qResult.m) <= QDistance(l)
             /\ QDistance(qResult.m) = QDistance(l) => qResult.m <= l

\* a value halfway between two levels has been quantized to the lower one
C2_Witness ==
    /\ qpc = "done"
    /\ \E l \in QLevelSet :
         /\ l > qResult.m
         /\ QDistance(l) = QDistance(qResult.m)

\* the table of the README, "How It Works / 1. Quantization"
ReadmeTable(v) ==
    IF v <= 25 THEN 0
    ELSE IF v <= 76 THEN 51
    ELSE IF v <= 127 THEN 102
    ELSE IF v <= 178 THEN 153
    ELSE IF v <= 229 THEN 204
    ELSE 255

\* C8: with the program's palette, findNearestLevel maps every integer of
\* 0..255 as the README's table says.
C8_ReadmeTable ==
    (/\ qpc = "done"
     /\ qLevels = MainLevels
     /\ qValue.e = 0
     /\ qValue.m \in 0 .. MaxIntensity) =>
        qResult = Num(ReadmeTable(qValue.m))

\* 26, the first value of the table's second row, has been quantized to 51
C8_Witness ==
    /\ qpc = "done"
    /\ qLevels = MainLevels
    /\ qValue = Num(26)
    /\ qResult = Num(51)

----------------------------------------------------------------------------
(* SpecMain: one run of main.  sharp and fs are outside the program: an      *)
(* awaited sharp call either resolves or rejects.                            *)

OutputFilename == "error_diffusion_output.png"
ComparisonFilename == "comparison.png"

\* the places where main waits for a promise of sharp
Awaiting ==
    {"metadata", "raw", "originalPng", "encodedPng", "saveOutput",
     "compose", "saveComparison"}

InitMain ==
    /\ mpc = "start"
    /\ filename \in {"", "test.jpg"}     \* "": process.argv[2] is undefined
    /\ fileExists \in BOOLEAN
    /\ metaWidth = 0
    /\ metaHeight = 0
    /\ data = <<>>
    /\ encodedData = <<>>
    /\ uniqueValues = {}
    /\ files = {}
    /\ exitCode = -1                     \* the process is running
    /\ EngineIdle
    /\ NearestIdle

\* lines 159-180: the argument and the file are checked
CheckArguments ==
    /\ mpc = "start"
    /\ IF filename = "" \/ ~fileExists
       THEN mpc' = "exited" /\ exitCode' = 1
       ELSE mpc' = "metadata" /\ exitCode' = exitCode
    /\ UNCHANGED <<filename, fileExists, metaWidth, metaHeight, data,
                   encodedData, uniqueValues, files>>
    /\ UNCHANGED <<engineVars, nearestVars>>

\* lines 184-194: image.metadata() resolves; 0 stands for an absent or zero
\* dimension, on which main throws into its own catch
Metadata ==
    /\ mpc = "metadata"
    /\ \E d \in {s \in Shapes : s[1] >= 0 /\ s[2] >= 0} :
         /\ metaWidth' = d[1]
         /\ metaHeight' = d[2]
         /\ IF d[1] = 0 \/ d[2] = 0
            THEN mpc' = "exited" /\ exitCode' = 1
            ELSE mpc' = "raw" /\ exitCode' = exitCode
    /\ UNCHANGED <<filename, fileExists, data, encodedData, uniqueValues,
                   files>>
    /\ UNCHANGED <<engineVars, nearestVars>>

\* lines 197-210: the raw pixels arrive, the image is diffused and its
\* distinct values are collected
Raw ==
    /\ mpc = "raw"
    /\ data' \in [0 .. metaWidth * metaHeight - 1 -> PixelVals]
    /\ encodedData' =
           applyErrorDiffusion(data', metaWidth, metaHeight, MainLevels)
    /\ uniqueValues' = {encodedData'[i] : i \in DOMAIN encodedData'}
    /\ mpc' = "originalPng"
    /\ UNCHANGED <<filename, fileExists, metaWidth, metaHeight, files,
                   exitCode>>
    /\ UNCHANGED <<engineVars, nearestVars>>

\* lines 213-219
OriginalPng ==
    /\ mpc = "originalPng"
    /\ mpc' = "encodedPng"
    /\ UNCHANGED <<filename, fileExists, metaWidth, metaHeight, data,
                   encodedData, uniqueValues, files, exitCode>>
    /\ UNCHANGED <<engineVars, nearestVars>>

\* lines 222-228
EncodedPng ==
    /\ mpc = "encodedPng"
    /\ mpc' = "saveOutput"
    /\ UNCHANGED <<filename, fileExists, metaWidth, metaHeight, data,
                   encodedData, uniqueValues, files, exitCode>>
    /\ UNCHANGED <<engineVars, nearestVars>>

\* lines 231-233: sharp(encodedBuffer).toFile(outputFilename) resolves
SaveOutput ==
    /\ mpc = "saveOutput"
    /\ files' = files \cup {OutputFilename}
    /\ mpc' = "compose"
    /\ UNCHANGED <<filename, fileExists, metaWidth, metaHeight, data,
                   encodedData, uniqueValues, exitCode>>
    /\ UNCHANGED <<engineVars, nearestVars>>

\* lines 236-241: createSideBySideImage resolves
Compose ==
    /\ mpc = "compose"
    /\ mpc' = "saveComparison"
    /\ UNCHANGED <<filename, fileExists, metaWidth, metaHeight, data,
                   encodedData, uniqueValues, files, exitCode>>
    /\ UNCHANGED <<engineVars, nearestVars>>

\* lines 242-246: sharp(comparisonBuffer).toFile(comparisonFilename)
\* resolves and main ends
SaveComparison ==
    /\ mpc = "saveComparison"
    /\ files' = files \cup {ComparisonFilename}
    /\ mpc' = "done"
    /\ exitCode' = 0
    /\ UNCHANGED <<filename, fileExists, metaWidth, metaHeight, data,
                   encodedData, uniqueValues>>
    /\ UNCHANGED <<engineVars, nearestVars>>

\* lines 248-251: the awaited promise rejects; the catch block logs the error
\* and exits with status 1
Catch ==
    /\ mpc \in Awaiting
    /\ mpc' = "exited"
    /\ exitCode' = 1
    /\ UNCHANGED <<filename, fileExists, metaWidth, metaHeight, data,
                   encodedData, uniqueValues, files>>
    /\ UNCHANGED <<engineVars, nearestVars>>

NextMain ==
    \/ CheckArguments
    \/ Metadata
    \/ Raw
    \/ OriginalPng
    \/ EncodedPng
    \/ SaveOutput
    \/ Compose
    \/ SaveComparison
    \/ Catch

SpecMain == InitMain /\ [][NextMain]_vars

\* C5 as claimed: a run in which a step failed has written no output file
\* and exits with a non-zero status.
C5_NoOutputOnFailure ==
    (mpc = "exited") => (exitCode # 0 /\ files = {})

====
